---- MODULE Spec2Model ----
(***************************************************************************)
(* A model of src/src/app.py: the prompt-template loader and agent         *)
(* assembly of create_agent, the start-up sequence of run_app with its     *)
(* submit handler process_request, and the get_current_time_in_timezone    *)
(* tool.                                                                   *)
(*                                                                         *)
(* Python values read from prompts.yaml are tagged records, so that the    *)
(* dynamic checks of the code (truthiness, `in`, subscripting, isinstance) *)
(* are computed as Python computes them.  Text is a TLA+ string.           *)
(***************************************************************************)
EXTENDS Integers, Sequences, FiniteSets, TLC

VARIABLES
    DEFAULT_PROMPTS,  \* the module-level dict, with its nested dicts
    n_calls,          \* number of create_agent calls made in this process
    last,             \* outcome of the latest create_agent call
    pc,               \* position of run_app
    agent,            \* the local `agent` of run_app, captured by the handler
    ui,               \* what run_app has built: handler bound, server launched
    console,          \* what run_app logged and printed
    n_submits,        \* number of clicks on the submit button so far
    response,         \* outcome of the latest process_request call
    clock,            \* the current instant (UTC), read by datetime.now
    tool_out          \* outcome of the latest get_current_time_in_timezone call

vars == <<DEFAULT_PROMPTS, n_calls, last, pc, agent, ui, console, n_submits,
          response, clock, tool_out>>

-----------------------------------------------------------------------------
(* Bounds of the model.                                                    *)

MaxCalls == 2

MaxSubmits == 2

-----------------------------------------------------------------------------
(* Python values as yaml.safe_load produces them.                          *)

EmptyDict == [k \in {} |-> 0]

PyNone == [t |-> "null", s |-> "", n |-> 0, items |-> <<>>, d |-> EmptyDict]

PyStr(text) == [t |-> "str", s |-> text, n |-> 0, items |-> <<>>, d |-> EmptyDict]

PyInt(i) == [t |-> "int", s |-> "", n |-> i, items |-> <<>>, d |-> EmptyDict]

PyList(xs) == [t |-> "list", s |-> "", n |-> 0, items |-> xs, d |-> EmptyDict]

PyDict(f) == [t |-> "map", s |-> "", n |-> 0, items |-> <<>>, d |-> f]

IsStr(x) == x.t = "str"

\* isinstance(x, dict)
IsDict(x) == x.t = "map"

\* bool(x), as `if loaded_prompts:` evaluates it
Truthy(x) ==
    CASE x.t = "null" -> FALSE
      [] x.t = "str"  -> x.s # ""
      [] x.t = "int"  -> x.n # 0
      [] x.t = "list" -> x.items # <<>>
      [] x.t = "map"  -> DOMAIN x.d # {}

\* sub in text, for two str
IsSubstring(sub, text) ==
    \E i \in 1..(Len(text) - Len(sub) + 1) : SubSeq(text, i, i + Len(sub) - 1) = sub

\* `key in x` raises TypeError when x is not a container
InRaises(x) == x.t \in {"null", "int"}

\* `key in x` for a str key: dict key, list element, substring of a str
In(key, x) ==
    CASE x.t = "map"  -> key \in DOMAIN x.d
      [] x.t = "list" -> \E i \in 1..Len(x.items) : x.items[i] = PyStr(key)
      [] x.t = "str"  -> IsSubstring(key, x.s)
      [] OTHER        -> FALSE

\* x[key] with a str key raises TypeError on a list or a str (a dict holds the
\* key wherever the code subscripts it: each subscript follows its `in` test)
GetItemRaises(x) == x.t # "map"

GetItem(x, key) == x.d[key]

-----------------------------------------------------------------------------
(* DEFAULT_PROMPTS as compiled in.                                         *)

PlanningKeys ==
    {"initial_facts", "initial_plan", "update_facts_pre_messages",
     "update_facts_post_messages", "update_plan_pre_messages",
     "update_plan_post_messages"}

CompiledDefaults ==
    [system_prompt |->
        PyStr("You are an expert assistant who can solve any task using code blobs."),
     final_answer |->
        [pre_messages  |-> PyStr("Here is the final answer to your question:"),
         post_messages |-> PyStr("Hope this helps!")],
     planning |->
        [initial_facts |->
            PyStr("First, let's identify what we know and what we need to find out."),
         initial_plan |->
            PyStr("Let's develop a step-by-step plan to solve this task."),
         update_facts_pre_messages |->
            PyStr("Let's update what we know based on our progress."),
         update_facts_post_messages |->
            PyStr("Here's our updated knowledge about the task."),
         update_plan_pre_messages |->
            PyStr("Let's review our plan based on what we've learned."),
         update_plan_post_messages |->
            PyStr("Here's our revised plan to complete the task.")],
     managed_agent |->
        [task |->
            PyStr("You're a helpful agent named '{{name}}'. You have been submitted this task by your manager."),
         report |->
            PyStr("Here is the final answer from your managed agent '{{name}}': {{final_answer}}")]]

-----------------------------------------------------------------------------
(* The prompt-template loader of create_agent (lines 94-123).              *)

\* Exception classes that `except Exception` catches
ExceptionClasses ==
    {"FileNotFoundError", "PermissionError", "UnicodeDecodeError", "YAMLError",
     "TypeError"}

Ok(pt) == [pt |-> pt, exc |-> ""]

Raise(pt, e) == [pt |-> pt, exc |-> e]

\* DEFAULT_PROMPTS.copy(): a new top-level dict whose final_answer, planning
\* and managed_agent entries are the very dicts DEFAULT_PROMPTS holds
ShallowCopy(defaults) == defaults

\* What DEFAULT_PROMPTS reads as once prompt_templates has been written to:
\* system_prompt is an entry of the copy, the nested dicts are shared
WriteThrough(defaults, pt) ==
    [defaults EXCEPT !.final_answer = pt.final_answer, !.planning = pt.planning]

\* open("prompts.yaml") and yaml.safe_load(stream)
ReadPromptFile(file) ==
    CASE file.status = "absent"       -> [exc |-> "FileNotFoundError", loaded |-> PyNone]
      [] file.status = "unreadable"   -> [exc |-> "PermissionError", loaded |-> PyNone]
      [] file.status = "undecodable"  -> [exc |-> "UnicodeDecodeError", loaded |-> PyNone]
      [] file.status = "bad_yaml"     -> [exc |-> "YAMLError", loaded |-> PyNone]
      [] file.status = "ok"           -> [exc |-> "", loaded |-> file.content]

MergeSystemPrompt(pt, lp) ==
    IF InRaises(lp) THEN Raise(pt, "TypeError")
    ELSE IF ~In("system_prompt", lp) THEN Ok(pt)
    ELSE IF GetItemRaises(lp) THEN Raise(pt, "TypeError")
    ELSE Ok([pt EXCEPT !.system_prompt = GetItem(lp, "system_prompt")])

MergeFinalAnswer(pt, lp) ==
    IF InRaises(lp) THEN Raise(pt, "TypeError")
    ELSE IF ~In("final_answer", lp) THEN Ok(pt)
    ELSE IF GetItemRaises(lp) THEN Raise(pt, "TypeError")
    ELSE LET fa == GetItem(lp, "final_answer") IN
         IF IsDict(fa)
         THEN LET p1 == IF In("pre_messages", fa)
                        THEN [pt EXCEPT !.final_answer.pre_messages =
                                            GetItem(fa, "pre_messages")]
                        ELSE pt
                  p2 == IF In("post_messages", fa)
                        THEN [p1 EXCEPT !.final_answer.post_messages =
                                            GetItem(fa, "post_messages")]
                        ELSE p1
              IN Ok(p2)
         ELSE Ok([pt EXCEPT !.final_answer.pre_messages = fa])

MergePlanning(pt, lp) ==
    IF InRaises(lp) THEN Raise(pt, "TypeError")
    ELSE IF ~In("planning", lp) THEN Ok(pt)
    ELSE IF GetItemRaises(lp) THEN Raise(pt, "TypeError")
    ELSE LET pl == GetItem(lp, "planning") IN
         IF ~IsDict(pl) THEN Ok(pt)
         ELSE Ok([pt EXCEPT !.planning =
                     [key \in DOMAIN pt.planning |->
                         IF In(key, pl) THEN GetItem(pl, key) ELSE pt.planning[key]]])

\* The body of `if loaded_prompts:`; a raise skips the statements after it
MergePrompts(pt, lp) ==
    IF ~Truthy(lp) THEN Ok(pt)
    ELSE LET r1 == MergeSystemPrompt(pt, lp)
             r2 == IF r1.exc # "" THEN r1 ELSE MergeFinalAnswer(r1.pt, lp)
             r3 == IF r2.exc # "" THEN r2 ELSE MergePlanning(r2.pt, lp)
         IN r3

\* A handler that catches only the failures of open(): `except OSError`
CaughtOSErrorOnly(e) == e \in {"FileNotFoundError", "PermissionError"}

\* `except Exception as e` of line 121
CaughtAt121(e) == e \in ExceptionClasses

LoadPromptTemplates(defaults, file) ==
    LET pt0 == ShallowCopy(defaults)
        rd  == ReadPromptFile(file)
        res == IF rd.exc # "" THEN Raise(pt0, rd.exc) ELSE MergePrompts(pt0, rd.loaded)
    IN [prompt_templates |-> res.pt,
        caught           |-> IF CaughtAt121(res.exc) THEN res.exc ELSE "",
        propagated       |-> IF res.exc # "" /\ ~CaughtAt121(res.exc) THEN res.exc ELSE "",
        defaults_after   |-> WriteThrough(defaults, res.pt)]

-----------------------------------------------------------------------------
(* Agent assembly: create_agent (lines 72-147).                            *)

max_steps == 6

FixedTools ==
    <<"my_custom_tool", "get_current_time_in_timezone", "final_answer", "visit_webpage">>

NoAgent ==
    [model |-> "", tools |-> <<>>, max_steps |-> 0, verbosity_level |-> 0,
     grammar |-> "", planning_interval |-> "", name |-> "", description |-> "",
     prompt_templates |-> EmptyDict]

NoFile == [status |-> "not_read", content |-> PyNone]

\* load_tool("agents-course/text-to-image", ...) inside its try/except:
\* the tool object, or None once the exception is caught
LoadImageTool(tool_ok) == IF tool_ok THEN "image_generation_tool" ELSE "None"

\* The list without the `if image_generation_tool:` test
ToolsListAlwaysAppend(image_generation_tool) ==
    Append(FixedTools, image_generation_tool)

\* tools = [...]; if image_generation_tool: tools.append(image_generation_tool)
ToolsList(image_generation_tool) ==
    IF image_generation_tool # "None"
    THEN Append(FixedTools, image_generation_tool)
    ELSE FixedTools

\* CodeAgent(model=..., tools=..., max_steps=6, ...): the framework's
\* constructor keeps what it is given
CodeAgent(model, tools, prompt_templates) ==
    [model |-> model, tools |-> tools, max_steps |-> max_steps, verbosity_level |-> 1,
     grammar |-> "None", planning_interval |-> "None", name |-> "Agent",
     description |-> "A CodeAgent with improved capabilities",
     prompt_templates |-> prompt_templates]

\* A handler that logs the failure and goes on without a model
AcquireModelSwallow(model_ok) ==
    IF model_ok THEN [handle |-> "HfApiModel", exc |-> ""]
    ELSE [handle |-> "None", exc |-> ""]

\* model = HfApiModel() inside its try/except: the handle, or the
\* RuntimeError that the except clause raises in place of the failure
AcquireModel(model_ok) ==
    IF model_ok THEN [handle |-> "HfApiModel", exc |-> ""]
    ELSE [handle |-> "None", exc |-> "RuntimeError"]

\* One call of create_agent with DEFAULT_PROMPTS reading `defaults`, in an
\* environment where HfApiModel() succeeds iff model_ok, load_tool succeeds iff
\* tool_ok and prompts.yaml is `file`.  The outcome records what was consumed.
create_agent(defaults, model_ok, tool_ok, file) ==
    LET model == AcquireModel(model_ok) IN
    IF model.exc # ""
    THEN [raised |-> model.exc, returned |-> FALSE, agent |-> NoAgent,
          ext_calls |-> <<"FinalAnswerTool", "VisitWebpageTool", "HfApiModel">>,
          model_load |-> "failed", tool_load |-> "not_attempted",
          file |-> NoFile, caught |-> "",
          defaults_before |-> defaults, defaults_after |-> defaults]
    ELSE LET image_generation_tool == LoadImageTool(tool_ok)
             loaded == LoadPromptTemplates(defaults, file)
             tools  == ToolsList(image_generation_tool)
         IN IF loaded.propagated # ""
            THEN [raised |-> loaded.propagated, returned |-> FALSE, agent |-> NoAgent,
                  ext_calls |-> <<"FinalAnswerTool", "VisitWebpageTool", "HfApiModel",
                                  "load_tool", "open">>,
                  model_load |-> IF model_ok THEN "ok" ELSE "failed",
                  tool_load |-> IF tool_ok THEN "ok" ELSE "failed",
                  file |-> file, caught |-> "",
                  defaults_before |-> defaults,
                  defaults_after |-> loaded.defaults_after]
            ELSE [raised |-> "", returned |-> TRUE,
                  agent |-> CodeAgent(model.handle, tools, loaded.prompt_templates),
                  ext_calls |-> <<"FinalAnswerTool", "VisitWebpageTool", "HfApiModel",
                                  "load_tool", "open", "CodeAgent">>,
                  model_load |-> IF model_ok THEN "ok" ELSE "failed",
                  tool_load |-> IF tool_ok THEN "ok" ELSE "failed",
                  file |-> file, caught |-> loaded.caught,
                  defaults_before |-> defaults,
                  defaults_after |-> loaded.defaults_after]

NoCall ==
    [raised |-> "", returned |-> FALSE, agent |-> NoAgent, ext_calls |-> <<>>,
     model_load |-> "not_attempted", tool_load |-> "not_attempted",
     file |-> NoFile, caught |-> "",
     defaults_before |-> CompiledDefaults, defaults_after |-> CompiledDefaults]

-----------------------------------------------------------------------------
(* The prompts.yaml documents the model draws from.                        *)

LeafValues == {PyStr("X"), PyNone, PyInt(7)}

\* Parsed documents whose top level is not a mapping, and the empty mapping
NonMappingContents ==
    {PyNone, PyStr(""), PyStr("hello"), PyStr("system_prompt"),
     PyStr("see final_answer and planning"), PyInt(0), PyInt(7),
     PyList(<<>>), PyList(<<PyStr("system_prompt")>>), PyList(<<PyStr("final_answer")>>),
     PyList(<<PyStr("planning")>>), PyList(<<PyStr("a")>>), PyDict(EmptyDict)}

SystemPromptDocs ==
    {PyDict([system_prompt |-> v]) : v \in LeafValues \cup {PyList(<<PyStr("a")>>)}}

FinalAnswerDicts ==
    {PyDict(EmptyDict)}
    \cup {PyDict([pre_messages |-> v]) : v \in LeafValues}
    \cup {PyDict([post_messages |-> v]) : v \in LeafValues}
    \cup {PyDict([pre_messages |-> v, post_messages |-> w]) : v, w \in LeafValues}

FinalAnswerDocs ==
    {PyDict([final_answer |-> v]) : v \in LeafValues \cup FinalAnswerDicts}

PlanningKeySets ==
    {{}, {"extra_notes"}, {"initial_plan", "extra_notes"},
     {"initial_facts", "update_plan_post_messages"}, PlanningKeys}
    \cup {{k} : k \in PlanningKeys}

PlanningDicts ==
    {PyDict([k \in S |-> v]) : S \in PlanningKeySets, v \in {PyStr("X"), PyNone}}
    \cup {PyDict([initial_facts |-> PyStr("X"), initial_plan |-> PyStr("Y")])}

PlanningDocs ==
    {PyDict([planning |-> v]) : v \in PlanningDicts \cup {PyStr("X"), PyNone}}

MixedDocs ==
    {PyDict([system_prompt |-> PyStr("X"), final_answer |-> PyStr("Y"),
             planning |-> PyDict([initial_plan |-> PyStr("Z")])]),
     PyDict([system_prompt |-> PyStr("X"),
             final_answer |-> PyDict([pre_messages |-> PyStr("Y"),
                                      post_messages |-> PyStr("Z")])]),
     PyDict([managed_agent |-> PyDict([task |-> PyStr("T")])]),
     PyDict([notes |-> PyStr("X")]),
     PyDict([planning |-> PyDict([initial_plan |-> PyStr("X")]),
             managed_agent |-> PyDict([task |-> PyStr("T"), report |-> PyStr("R")]),
             notes |-> PyStr("n")])}

MappingContents == SystemPromptDocs \cup FinalAnswerDocs \cup PlanningDocs \cup MixedDocs

PromptFiles ==
    {[status |-> st, content |-> PyNone] :
        st \in {"absent", "unreadable", "undecodable", "bad_yaml"}}
    \cup {[status |-> "ok", content |-> c] : c \in NonMappingContents \cup MappingContents}

-----------------------------------------------------------------------------
(* A process whose callers call create_agent, any number of times.         *)

IdleApp ==
    /\ pc = "start"
    /\ agent = NoAgent
    /\ ui = [blocks |-> FALSE, handler_bound |-> FALSE, launched |-> FALSE]
    /\ console = <<>>
    /\ n_submits = 0
    /\ response = [kind |-> "none", task |-> "", value |-> PyNone, message |-> "",
                   agent |-> NoAgent]

IdleTool ==
    /\ clock = [year |-> 2025, month |-> 1, day |-> 1, hour |-> 0, minute |-> 0,
                second |-> 0]
    /\ tool_out = [called |-> FALSE, timezone |-> "", raised |-> FALSE, text |-> ""]

Init ==
    /\ DEFAULT_PROMPTS = CompiledDefaults
    /\ n_calls = 0
    /\ last = NoCall
    /\ IdleApp
    /\ IdleTool

CreateAgent ==
    /\ n_calls < MaxCalls
    /\ \E model_ok \in BOOLEAN, tool_ok \in BOOLEAN, file \in PromptFiles :
          LET r == create_agent(DEFAULT_PROMPTS, model_ok, tool_ok, file) IN
          /\ last' = r
          /\ DEFAULT_PROMPTS' = r.defaults_after
    /\ n_calls' = n_calls + 1
    /\ UNCHANGED <<pc, agent, ui, console, n_submits, response, clock, tool_out>>

Next == CreateAgent

Spec == Init /\ [][Next]_vars

-----------------------------------------------------------------------------
(* Properties of create_agent, stated on the latest call.                  *)

TopKeys == {"system_prompt", "final_answer", "planning", "managed_agent"}

\* The template set has exactly the required keys
HasRequiredKeys(pt) ==
    /\ DOMAIN pt = TopKeys
    /\ DOMAIN pt.final_answer = {"pre_messages", "post_messages"}
    /\ DOMAIN pt.planning = PlanningKeys
    /\ DOMAIN pt.managed_agent = {"task", "report"}

\* Every required key resolves to a string
AllStrings(pt) ==
    /\ IsStr(pt.system_prompt)
    /\ \A k \in DOMAIN pt.final_answer : IsStr(pt.final_answer[k])
    /\ \A k \in DOMAIN pt.planning : IsStr(pt.planning[k])
    /\ \A k \in DOMAIN pt.managed_agent : IsStr(pt.managed_agent[k])

\* The file was read and is absent, unreadable, unparsable, empty, or parses to
\* something that is not a mapping
MissingOrMalformed(file) ==
    \/ file.status \in {"absent", "unreadable", "undecodable", "bad_yaml"}
    \/ file.status = "ok" /\ ~IsDict(file.content)

IsMapping(file) == file.status = "ok" /\ IsDict(file.content)

\* A mapping whose only overridable section is a planning mapping
OverridesOnlyPlanning(file) ==
    /\ IsMapping(file)
    /\ "planning" \in DOMAIN file.content.d
    /\ IsDict(file.content.d["planning"])
    /\ "system_prompt" \notin DOMAIN file.content.d
    /\ "final_answer" \notin DOMAIN file.content.d

GivesFinalAnswer(file) == IsMapping(file) /\ "final_answer" \in DOMAIN file.content.d

\* C1: repeated create_agent calls never cross-contaminate: DEFAULT_PROMPTS
\* (nested mappings included) is after every call what it was before the
\* first, and the template set a call produces is the one its own document
\* gives on the compiled-in defaults, whatever earlier calls have read.
C1_NoCrossContamination ==
    /\ DEFAULT_PROMPTS = CompiledDefaults
    /\ last.returned =>
          last.agent.prompt_templates =
             create_agent(CompiledDefaults, TRUE, TRUE, last.file).agent.prompt_templates

\* C2: in a fresh process, a create_agent call that reads a missing or
\* malformed prompts.yaml returns an agent whose template set is the
\* compiled-in defaults in every field, and no exception leaves the call.
C2_MalformedKeepsDefaults ==
    (n_calls = 1 /\ MissingOrMalformed(last.file)) =>
        /\ last.raised = ""
        /\ last.returned
        /\ last.agent.prompt_templates = CompiledDefaults

C2_Witness ==
    /\ n_calls = 1
    /\ last.file = [status |-> "ok", content |-> PyList(<<PyStr("final_answer")>>)]
    /\ last.caught = "TypeError"
    /\ last.returned

\* C3: whatever prompts.yaml parses to, the template set produced has exactly
\* the required keys and every one of them resolves to a string.
C3_AlwaysStrings ==
    last.returned =>
        /\ HasRequiredKeys(last.agent.prompt_templates)
        /\ AllStrings(last.agent.prompt_templates)

\* C4: for a mapping that overrides only planning sub-keys, the template set
\* has the document's value in each known planning sub-key the document gives
\* and the compiled-in default everywhere else, and no other planning key.
C4_PlanningFrame ==
    (last.returned /\ OverridesOnlyPlanning(last.file)) =>
        LET pt == last.agent.prompt_templates
            pl == last.file.content.d["planning"].d
        IN /\ DOMAIN pt.planning = PlanningKeys
           /\ \A k \in PlanningKeys :
                 pt.planning[k] = IF k \in DOMAIN pl THEN pl[k]
                                  ELSE CompiledDefaults.planning[k]
           /\ pt.system_prompt = CompiledDefaults.system_prompt
           /\ pt.final_answer = CompiledDefaults.final_answer
           /\ pt.managed_agent = CompiledDefaults.managed_agent

\* C5: final_answer given as a plain string X yields pre_messages = X and the
\* compiled-in default post_messages; given as a mapping, pre_messages and
\* post_messages each come from the document when present and are the
\* compiled-in default otherwise.
C5_FinalAnswerShapes ==
    (last.returned /\ GivesFinalAnswer(last.file)) =>
        LET pt == last.agent.prompt_templates.final_answer
            fa == last.file.content.d["final_answer"]
        IN /\ IsStr(fa) =>
                /\ pt.pre_messages = fa
                /\ pt.post_messages = CompiledDefaults.final_answer.post_messages
           /\ IsDict(fa) =>
                \A k \in {"pre_messages", "post_messages"} :
                    pt[k] = IF k \in DOMAIN fa.d THEN fa.d[k]
                            ELSE CompiledDefaults.final_answer[k]

\* C6: a failed model acquisition makes create_agent raise the wrapped error
\* with no agent produced and neither load_tool nor the prompts.yaml read
\* attempted; whenever create_agent returns, the agent holds the acquired
\* model handle, the four fixed tools, a full template set and max_steps 6.
C6_ModelMandatory ==
    /\ last.model_load = "failed" =>
          /\ last.raised = "RuntimeError"
          /\ ~last.returned
          /\ last.agent = NoAgent
          /\ \A i \in 1..Len(last.ext_calls) : last.ext_calls[i] \notin {"load_tool", "open"}
    /\ last.returned =>
          /\ last.model_load = "ok"
          /\ last.agent.model = "HfApiModel"
          /\ Len(last.agent.tools) >= 4
          /\ SubSeq(last.agent.tools, 1, 4) = FixedTools
          /\ HasRequiredKeys(last.agent.prompt_templates)
          /\ last.agent.max_steps = 6

C6_Witness ==
    /\ n_calls = 2
    /\ last.model_load = "failed"
    /\ last.raised = "RuntimeError"
    /\ DEFAULT_PROMPTS # CompiledDefaults

\* C7: when load_tool fails and the model was acquired, create_agent returns
\* an agent and raises nothing; its tools are exactly the four fixed tools in
\* order, one fewer than when the load succeeds, and its template set is the
\* one the same call produces when the load succeeds.
C7_ToolLoadSoftFail ==
    last.tool_load = "failed" =>
        LET with_tool == create_agent(last.defaults_before, TRUE, TRUE, last.file) IN
        /\ last.raised = ""
        /\ last.returned
        /\ last.agent.tools = FixedTools
        /\ with_tool.returned
        /\ Len(last.agent.tools) = Len(with_tool.agent.tools) - 1
        /\ last.agent.prompt_templates = with_tool.agent.prompt_templates

C7_Witness ==
    /\ last.tool_load = "failed"
    /\ last.returned
    /\ GivesFinalAnswer(last.file)
    /\ last.agent.prompt_templates # CompiledDefaults

-----------------------------------------------------------------------------
(* run_app (lines 150-208) and its submit handler process_request.         *)

LogError(text) == [channel |-> "logger.error", text |-> text]

Printed(text) == [channel |-> "print", text |-> text]

\* The except clause of line 206: log the failure, print it, fall out of run_app
StartupFailure(e) ==
    <<LogError("Failed to start application: " \o e), Printed("Critical error: " \o e)>>

\* A run_app that goes on to build the interface whatever create_agent did
AfterCreateAgentAlwaysOn(r) == "assembled"

\* agent = create_agent() inside the try of line 163: the next statement, or
\* the except clause when the call raised
AfterCreateAgent(r) == IF r.returned THEN "assembled" ELSE "failed"

\* What the framework's agent(task) may do: return the report text or raise
AgentOutcomes ==
    {[raises |-> FALSE, value |-> PyStr("The answer is 42."), message |-> ""],
     [raises |-> FALSE, value |-> PyStr(""), message |-> ""],
     [raises |-> TRUE, value |-> PyNone, message |-> "model overloaded"],
     [raises |-> TRUE, value |-> PyNone, message |-> ""]}

Tasks == {"", "What time is it in Tokyo?"}

\* A handler with no try/except around agent(task)
process_request_unguarded(outcome) ==
    [raised |-> outcome.raises, value |-> outcome.value, log |-> <<>>]

\* process_request(task), given what agent(task) does
process_request(outcome) ==
    IF outcome.raises
    THEN [raised |-> FALSE,
          value  |-> PyStr("Error processing your request: " \o outcome.message),
          log    |-> <<LogError("Error in agent processing: " \o outcome.message)>>]
    ELSE [raised |-> FALSE, value |-> outcome.value, log |-> <<>>]

\* import gradio as gr; from Gradio_UI import GradioUI
RunAppImport ==
    /\ pc = "start"
    /\ \E import_ok \in BOOLEAN :
          IF import_ok
          THEN /\ pc' = "imported"
               /\ console' = console
          ELSE /\ pc' = "import_error"
               /\ console' = Append(console, LogError("Error importing Gradio: ImportError"))
    /\ UNCHANGED <<DEFAULT_PROMPTS, n_calls, last, agent, ui, n_submits, response,
                   clock, tool_out>>

\* agent = create_agent()
RunAppCreateAgent ==
    /\ pc = "imported"
    /\ \E model_ok \in BOOLEAN, tool_ok \in BOOLEAN, file \in PromptFiles :
          LET r == create_agent(DEFAULT_PROMPTS, model_ok, tool_ok, file) IN
          /\ last' = r
          /\ DEFAULT_PROMPTS' = r.defaults_after
          /\ pc' = AfterCreateAgent(r)
          /\ agent' = r.agent
          /\ console' = IF AfterCreateAgent(r) = "failed"
                        THEN console \o StartupFailure(r.raised)
                        ELSE console
    /\ n_calls' = n_calls + 1
    /\ UNCHANGED <<ui, n_submits, response, clock, tool_out>>

\* with gr.Blocks() as demo: ... submit_btn.click(fn=process_request, ...)
RunAppBuildUI ==
    /\ pc = "assembled"
    /\ \E build_ok \in BOOLEAN :
          IF build_ok
          THEN /\ pc' = "bound"
               /\ ui' = [ui EXCEPT !.blocks = TRUE, !.handler_bound = TRUE]
               /\ console' = console
          ELSE /\ pc' = "failed"
               /\ ui' = [ui EXCEPT !.blocks = TRUE]
               /\ console' = console \o StartupFailure("gradio error")
    /\ UNCHANGED <<DEFAULT_PROMPTS, n_calls, last, agent, n_submits, response,
                   clock, tool_out>>

\* demo.launch(server_name="0.0.0.0", share=False, debug=False)
RunAppLaunch ==
    /\ pc = "bound"
    /\ \E launch_ok \in BOOLEAN :
          IF launch_ok
          THEN /\ pc' = "serving"
               /\ ui' = [ui EXCEPT !.launched = TRUE]
               /\ console' = console
          ELSE /\ pc' = "failed"
               /\ ui' = ui
               /\ console' = console \o StartupFailure("OSError")
    /\ UNCHANGED <<DEFAULT_PROMPTS, n_calls, last, agent, n_submits, response,
                   clock, tool_out>>

\* A click on the submit button while the server runs
Submit ==
    /\ pc = "serving"
    /\ ui.handler_bound
    /\ n_submits < MaxSubmits
    /\ \E task \in Tasks, outcome \in AgentOutcomes :
          LET r == process_request(outcome) IN
          /\ response' = [kind   |-> IF r.raised THEN "raised"
                                     ELSE IF outcome.raises THEN "error" ELSE "answer",
                          task   |-> task,
                          value  |-> r.value,
                          message |-> outcome.message,
                          agent  |-> agent]
          /\ console' = console \o r.log
          /\ pc' = IF r.raised THEN "handler_raised" ELSE pc
    /\ n_submits' = n_submits + 1
    /\ UNCHANGED <<DEFAULT_PROMPTS, n_calls, last, agent, ui, clock, tool_out>>

\* The server is stopped and demo.launch returns
Shutdown ==
    /\ pc = "serving"
    /\ pc' = "done"
    /\ UNCHANGED <<DEFAULT_PROMPTS, n_calls, last, agent, ui, console, n_submits,
                   response, clock, tool_out>>

NextApp ==
    \/ RunAppImport
    \/ RunAppCreateAgent
    \/ RunAppBuildUI
    \/ RunAppLaunch
    \/ Submit
    \/ Shutdown

SpecApp == Init /\ [][NextApp]_vars

Logged(channel, text) ==
    \E i \in 1..Len(console) : console[i] = [channel |-> channel, text |-> text]

\* C8: the server is launched only once create_agent has returned an agent
\* to run_app; when agent assembly fails the failure is logged and printed,
\* the submit handler is never bound, the server never launched, and no
\* submission is ever served without an agent.
C8_AssemblyPrecedesServing ==
    /\ (ui.launched \/ ui.handler_bound) =>
          /\ last.returned
          /\ agent = last.agent
          /\ agent # NoAgent
    /\ (n_calls > 0 /\ ~last.returned) =>
          /\ pc = "failed"
          /\ Logged("logger.error", "Failed to start application: " \o last.raised)
          /\ Logged("print", "Critical error: " \o last.raised)
          /\ ~ui.handler_bound
          /\ ~ui.launched
          /\ n_submits = 0
    /\ n_submits > 0 => (response.agent # NoAgent /\ ui.launched)

C8_Witness ==
    /\ pc = "failed"
    /\ n_calls = 1
    /\ last.raised = "RuntimeError"
    /\ Logged("print", "Critical error: RuntimeError")

\* C9: every call of process_request returns text and never raises; when the
\* agent invocation raises, the text is 'Error processing your request: '
\* followed by the message; the server stays up and the submission was
\* handled by the agent instance run_app created, which stays in place.
C9_HandlerNeverRaises ==
    [][n_submits' = n_submits + 1 =>
          /\ response'.kind \in {"answer", "error"}
          /\ IsStr(response'.value)
          /\ response'.kind = "error" =>
                response'.value =
                    PyStr("Error processing your request: " \o response'.message)
          /\ pc' = "serving"
          /\ ui' = ui
          /\ agent' = agent
          /\ response'.agent = last.agent]_vars

C9_Witness ==
    /\ n_submits = 2
    /\ response.kind = "answer"
    /\ Logged("logger.error", "Error in agent processing: model overloaded")
    /\ pc = "serving"

-----------------------------------------------------------------------------
(* The tool get_current_time_in_timezone (lines 30-46).                    *)

\* The zones pytz knows, with their offset from UTC in minutes (zones that
\* keep one offset all year)
KnownZones ==
    [z \in {"UTC", "Asia/Tokyo", "Asia/Kolkata", "America/Phoenix",
            "Pacific/Kiritimati", "Pacific/Pago_Pago"} |->
        CASE z = "UTC"                -> 0
          [] z = "Asia/Tokyo"         -> 540
          [] z = "Asia/Kolkata"       -> 330
          [] z = "America/Phoenix"    -> -420
          [] z = "Pacific/Kiritimati" -> 840
          [] z = "Pacific/Pago_Pago"  -> -660]

TimezoneArgs == DOMAIN KnownZones \cup {"Not/ARealZone", "", "Mars/Olympus_Mons"}

\* pytz.timezone(name): the zone, or UnknownTimeZoneError(name), a KeyError,
\* whose str() is the repr of the name
pytz_timezone(name) ==
    IF name \in DOMAIN KnownZones
    THEN [exc |-> "", message |-> "", utcoffset |-> KnownZones[name]]
    ELSE [exc |-> "UnknownTimeZoneError", message |-> "'" \o name \o "'", utcoffset |-> 0]

IsLeap(y) == (y % 4 = 0 /\ y % 100 # 0) \/ y % 400 = 0

DaysInMonth(y, m) ==
    CASE m \in {1, 3, 5, 7, 8, 10, 12} -> 31
      [] m \in {4, 6, 9, 11}           -> 30
      [] OTHER                         -> IF IsLeap(y) THEN 29 ELSE 28

\* datetime.datetime.now(tz): the UTC instant shifted by the zone's offset
\* (of less than a day), carried into the date
now(utc, utcoffset) ==
    LET mins   == utc.hour * 60 + utc.minute + utcoffset
        carry  == IF mins < 0 THEN -1 ELSE IF mins >= 1440 THEN 1 ELSE 0
        m2     == mins - carry * 1440
        d1     == utc.day + carry
        prev_m == IF utc.month = 1 THEN 12 ELSE utc.month - 1
        prev_y == IF utc.month = 1 THEN utc.year - 1 ELSE utc.year
        next_m == IF utc.month = 12 THEN 1 ELSE utc.month + 1
        next_y == IF utc.month = 12 THEN utc.year + 1 ELSE utc.year
    IN IF d1 < 1
       THEN [year |-> prev_y, month |-> prev_m, day |-> DaysInMonth(prev_y, prev_m),
             hour |-> m2 \div 60, minute |-> m2 % 60, second |-> utc.second]
       ELSE IF d1 > DaysInMonth(utc.year, utc.month)
       THEN [year |-> next_y, month |-> next_m, day |-> 1,
             hour |-> m2 \div 60, minute |-> m2 % 60, second |-> utc.second]
       ELSE [year |-> utc.year, month |-> utc.month, day |-> d1,
             hour |-> m2 \div 60, minute |-> m2 % 60, second |-> utc.second]

Digit(d) == SubSeq("0123456789", d + 1, d + 1)

\* %m, %d, %H, %M, %S: two digits, zero-padded
Pad2(n) == Digit((n \div 10) % 10) \o Digit(n % 10)

\* %Y for a year of four digits
Year4(y) == Pad2(y \div 100) \o Pad2(y % 100)

\* A format that drops the seconds: "%Y-%m-%d %H:%M"
strftime_no_seconds(dt) ==
    Year4(dt.year) \o "-" \o Pad2(dt.month) \o "-" \o Pad2(dt.day) \o " "
        \o Pad2(dt.hour) \o ":" \o Pad2(dt.minute)

\* .strftime("%Y-%m-%d %H:%M:%S")
strftime(dt) ==
    Year4(dt.year) \o "-" \o Pad2(dt.month) \o "-" \o Pad2(dt.day) \o " "
        \o Pad2(dt.hour) \o ":" \o Pad2(dt.minute) \o ":" \o Pad2(dt.second)

get_current_time_in_timezone(timezone, utc) ==
    LET tz == pytz_timezone(timezone) IN
    IF tz.exc # ""
    THEN [called |-> TRUE, timezone |-> timezone, raised |-> FALSE,
          text |-> "Error fetching time for timezone '" \o timezone \o "': "
                      \o tz.message]
    ELSE [called |-> TRUE, timezone |-> timezone, raised |-> FALSE,
          text |-> "The current local time in " \o timezone \o " is: "
                      \o strftime(now(utc, tz.utcoffset))]

\* The instants at which the tool is called
Dates ==
    {<<2023, 2, 28>>, <<2024, 2, 28>>, <<2024, 2, 29>>, <<2024, 3, 1>>,
     <<2024, 12, 31>>, <<2025, 1, 1>>, <<2025, 6, 30>>, <<2026, 11, 3>>}

Times == {<<0, 0, 0>>, <<9, 5, 7>>, <<17, 30, 0>>, <<23, 59, 59>>}

Instants ==
    {[year |-> d[1], month |-> d[2], day |-> d[3],
      hour |-> t[1], minute |-> t[2], second |-> t[3]] : d \in Dates, t \in Times}

InitTool ==
    /\ DEFAULT_PROMPTS = CompiledDefaults
    /\ n_calls = 0
    /\ last = NoCall
    /\ IdleApp
    /\ clock \in Instants
    /\ tool_out = [called |-> FALSE, timezone |-> "", raised |-> FALSE, text |-> ""]

\* The agent calls the tool
GetCurrentTime ==
    /\ \E timezone \in TimezoneArgs :
          tool_out' = get_current_time_in_timezone(timezone, clock)
    /\ UNCHANGED <<DEFAULT_PROMPTS, n_calls, last, pc, agent, ui, console, n_submits,
                   response, clock>>

NextTool == GetCurrentTime

SpecTool == InitTool /\ [][NextTool]_vars

IsDigits(text) == \A i \in 1..Len(text) : IsSubstring(SubSeq(text, i, i), "0123456789")

\* The number a string of digits writes
RECURSIVE Number(_)
Number(text) ==
    IF text = "" THEN 0
    ELSE LET n == Len(text)
             unit == CHOOSE d \in 0..9 : Digit(d) = SubSeq(text, n, n)
         IN 10 * Number(SubSeq(text, 1, n - 1)) + unit

\* text is YYYY-MM-DD HH:MM:SS and names a date and a time of day
IsTimestamp(text) ==
    /\ Len(text) = 19
    /\ IsDigits(SubSeq(text, 1, 4)) /\ SubSeq(text, 5, 5) = "-"
    /\ IsDigits(SubSeq(text, 6, 7)) /\ SubSeq(text, 8, 8) = "-"
    /\ IsDigits(SubSeq(text, 9, 10)) /\ SubSeq(text, 11, 11) = " "
    /\ IsDigits(SubSeq(text, 12, 13)) /\ SubSeq(text, 14, 14) = ":"
    /\ IsDigits(SubSeq(text, 15, 16)) /\ SubSeq(text, 17, 17) = ":"
    /\ IsDigits(SubSeq(text, 18, 19))
    /\ Number(SubSeq(text, 6, 7)) \in 1..12
    /\ Number(SubSeq(text, 9, 10)) \in
          1..DaysInMonth(Number(SubSeq(text, 1, 4)), Number(SubSeq(text, 6, 7)))
    /\ Number(SubSeq(text, 12, 13)) \in 0..23
    /\ Number(SubSeq(text, 15, 16)) \in 0..59
    /\ Number(SubSeq(text, 18, 19)) \in 0..59

\* C10: the timezone tool always returns text and never raises: for an
\* identifier pytz does not know, a string containing 'Error fetching time
\* for timezone'; for a known identifier Z, 'The current local time in Z is: '
\* followed by a timestamp YYYY-MM-DD HH:MM:SS.
C10_TimeToolTotal ==
    tool_out.called =>
        LET prefix == "The current local time in " \o tool_out.timezone \o " is: " IN
        /\ ~tool_out.raised
        /\ tool_out.timezone \notin DOMAIN KnownZones =>
              IsSubstring("Error fetching time for timezone", tool_out.text)
        /\ tool_out.timezone \in DOMAIN KnownZones =>
              /\ Len(tool_out.text) > Len(prefix)
              /\ SubSeq(tool_out.text, 1, Len(prefix)) = prefix
              /\ IsTimestamp(SubSeq(tool_out.text, Len(prefix) + 1, Len(tool_out.text)))

C10_Witness ==
    /\ tool_out.called
    /\ clock = [year |-> 2024, month |-> 12, day |-> 31, hour |-> 17, minute |-> 30,
                second |-> 0]
    /\ tool_out.text = "The current local time in Asia/Tokyo is: 2025-01-01 02:30:00"

====
